---- MODULE Spec2Model ----
(***************************************************************************)
(* quickcheck_async: the two attribute macros `tokio` and `async_std`      *)
(* (src/src/lib.rs) and the test function they emit.                       *)
(*                                                                         *)
(* One macro expansion is one action (Tokio / AsyncStd): it maps the pair  *)
(* (attribute argument tokens, annotated item) to the token stream the     *)
(* macro returns.  The emitted test function is then run by the harness:   *)
(* the actions RunTest .. InlineReturn are the steps of the emitted code   *)
(* (lib.rs 102-117 and 163-174).                                           *)
(***************************************************************************)
EXTENDS Integers, Sequences, FiniteSets, TLC

\* ----------------------------------------------------------------- bounds
MaxAttrs     == 2   \* attributes already on the annotated function
MaxParams    == 2   \* parameters of the annotated function
MaxArgTokens == 3   \* tokens in the macro's own argument list
NumTests     == 2   \* passing tests the engine runs before it reports success
MaxShrink    == 1   \* further bridge invocations the engine makes while shrinking

\* ------------------------------------------------------------ input space
SeqUpTo(S, n) == UNION {[1..k -> S] : k \in 0..n}

\* attribute paths, as sequences of segments: #[test] and #[tokio::test]
AttrPaths == {<<"test">>, <<"tokio", "test">>}

Receiver == [kind |-> "Receiver", pat |-> "self", ty |-> "Self"]
TypedArgs == {[kind |-> "Typed", pat |-> "a", ty |-> "u8"],
              [kind |-> "Typed", pat |-> "b", ty |-> "String"]}
FnArgs == TypedArgs \cup {Receiver}

\* return types: none written (unit) or `-> bool`
Outputs == {"default", "bool"}

ItemFns == [kind : {"fn"}, attrs : SeqUpTo(AttrPaths, MaxAttrs), asyncness : BOOLEAN,
            ident : {"prop"}, inputs : SeqUpTo(FnArgs, MaxParams), output : Outputs]

\* an annotated item that is not a function (a struct, say)
NotFn == [kind |-> "other", attrs |-> <<>>, asyncness |-> FALSE,
          ident |-> "prop", inputs |-> <<>>, output |-> "default"]

\* tokens of the macro's own argument list: two meta items and the comma
Comma == ","
ArgTokens == {"core_threads = 3", "max_threads = 5", Comma}

\* -------------------------------------------------------------- messages
MsgReceiver  == "test fn cannot take a receiver"
MsgMultiple  == "multiple #[test] attributes were supplied"
MsgAsync     == "test fn must be async"
MsgItemParse == "syn: item is not a fn"
MsgArgsParse == "syn: attribute arguments are not a meta list"

VARIABLES item, args, expandedBy, result,
          testPc, worker, joinResult, engine, sawFalse

vars == <<item, args, expandedBy, result, testPc, worker, joinResult, engine, sawFalse>>

\* ------------------------------------------------------- macro expansion
NoOutput == [diags |-> <<>>, fns |-> <<>>]
compile_error(msg) == [diags |-> <<msg>>, fns |-> <<>>]

\* parse_macro_input!(item as ItemFn)
ParseItemFn(it) == it.kind = "fn"

\* syn::Path::is_ident
is_ident(path, ident) == Len(path) = 1 /\ path[1] = ident

HasTestAttrFirstOnly(attrs) == Len(attrs) > 0 /\ is_ident(attrs[1], "test")

\* for attr in &fn_item.attrs { if attr.path.is_ident("test") { return .. } }
HasTestAttr(attrs) == \E i \in 1..Len(attrs) : is_ident(attrs[i], "test")

asyncness_is_some(fn_item) == fn_item.asyncness

\* fn_item.sig.asyncness.is_none()
asyncness_is_none(fn_item) == ~fn_item.asyncness

RECURSIVE AttributeArgsLoop(_, _)
\* syn's parser for AttributeArgs: meta, then end of input or a comma, repeated;
\* a trailing comma is accepted
AttributeArgsLoop(input, metas) ==
    IF input = <<>> THEN [ok |-> TRUE, metas |-> metas]
    ELSE IF Head(input) = Comma THEN [ok |-> FALSE, metas |-> <<>>]
    ELSE LET rest == Tail(input)
             pushed == Append(metas, Head(input))
         IN IF rest = <<>> THEN [ok |-> TRUE, metas |-> pushed]
            ELSE IF Head(rest) # Comma THEN [ok |-> FALSE, metas |-> <<>>]
            ELSE AttributeArgsLoop(Tail(rest), pushed)

ParseAttributeArgsNoTrailing(input) ==
    IF input # <<>> /\ input[Len(input)] = Comma
    THEN [ok |-> FALSE, metas |-> <<>>]
    ELSE AttributeArgsLoop(input, <<>>)

\* parse_macro_input!(args as AttributeArgs)
ParseAttributeArgs(input) == AttributeArgsLoop(input, <<>>)

RECURSIVE Dedup(_)
Dedup(s) ==
    IF s = <<>> THEN <<>>
    ELSE LET d == Dedup(SubSeq(s, 1, Len(s) - 1))
             x == s[Len(s)]
         IN IF \E i \in 1..Len(d) : d[i] = x THEN d ELSE Append(d, x)

CollectDedup(p_args) == Dedup(p_args)

\* p_args.into_iter().collect::<Punctuated<NestedMeta, Comma>>()
Collect(p_args) == p_args

RECURSIVE PunctuatedToTokens(_)
\* ToTokens of a Punctuated built by push/collect: the elements with a comma
\* between two of them and none after the last
PunctuatedToTokens(p) ==
    IF p = <<>> THEN <<>>
    ELSE IF Len(p) = 1 THEN <<p[1]>>
    ELSE <<p[1], Comma>> \o PunctuatedToTokens(Tail(p))

ArgumentsErr == [ok |-> FALSE, ids |-> <<>>, tys |-> <<>>, err |-> MsgReceiver]

RECURSIVE parse_args_loop(_, _, _)
parse_args_loop(inputs, ids, tys) ==
    IF inputs = <<>> THEN [ok |-> TRUE, ids |-> ids, tys |-> tys, err |-> ""]
    ELSE IF Head(inputs).kind = "Receiver" THEN ArgumentsErr
    ELSE parse_args_loop(Tail(inputs), Append(ids, Head(inputs).pat),
                         Append(tys, Head(inputs).ty))

RECURSIVE parse_args_skip_loop(_, _, _)
parse_args_skip_loop(inputs, ids, tys) ==
    IF inputs = <<>> THEN [ok |-> TRUE, ids |-> ids, tys |-> tys, err |-> ""]
    ELSE IF Head(inputs).kind = "Receiver" THEN parse_args_skip_loop(Tail(inputs), ids, tys)
    ELSE parse_args_skip_loop(Tail(inputs), Append(ids, Head(inputs).pat),
                              Append(tys, Head(inputs).ty))

RECURSIVE parse_args_rev_loop(_, _, _)
parse_args_rev_loop(inputs, ids, tys) ==
    IF inputs = <<>> THEN [ok |-> TRUE, ids |-> ids, tys |-> tys, err |-> ""]
    ELSE IF Head(inputs).kind = "Receiver" THEN ArgumentsErr
    ELSE parse_args_rev_loop(Tail(inputs), <<Head(inputs).pat>> \o ids,
                             Append(tys, Head(inputs).ty))

parse_args_skip(fn_item) == parse_args_skip_loop(fn_item.inputs, <<>>, <<>>)

parse_args_rev(fn_item) == parse_args_rev_loop(fn_item.inputs, <<>>, <<>>)

\* fn parse_args(fn_item: &ItemFn) -> Result<Arguments, TokenStream>
parse_args(fn_item) == parse_args_loop(fn_item.inputs, <<>>, <<>>)

\* the bridging closure: let test_fn: fn(#tys) #ret = |#ids| { block_on(#call_by(#ids)) };
Bridge(call_by, ids, tys, ret) ==
    [tys |-> tys, ret |-> ret, ids |-> ids,
     drive |-> "futures::executor::block_on", callee |-> call_by, call_args |-> ids]

\* quote!( #[::tokio::test(#attrib)] async fn #call_by() { .. } )
quote_tokio(attrib, call_by, fn_item, ids, tys, ret) ==
    [diags |-> <<>>,
     fns |-> << [marker |-> [path |-> <<"tokio", "test">>, args |-> PunctuatedToTokens(attrib)],
                 ident |-> call_by, params |-> <<>>, nested |-> fn_item,
                 bridge |-> Bridge(call_by, ids, tys, ret),
                 run |-> "spawn_blocking"] >>]

\* quote!( #[::async_std::test(#attrib)] async fn #call_by() { .. } )
quote_async_std(attrib, call_by, fn_item, ids, tys, ret) ==
    [diags |-> <<>>,
     fns |-> << [marker |-> [path |-> <<"async_std", "test">>, args |-> PunctuatedToTokens(attrib)],
                 ident |-> call_by, params |-> <<>>, nested |-> fn_item,
                 bridge |-> Bridge(call_by, ids, tys, ret),
                 run |-> "inline"] >>]

\* a variant that reports every failed check instead of returning at the first
tokio_batched(a, it) ==
    IF ~ParseItemFn(it) THEN compile_error(MsgItemParse)
    ELSE LET p_args == ParseAttributeArgs(a)
             parsed == parse_args(it)
             ds == (IF HasTestAttr(it.attrs) THEN <<MsgMultiple>> ELSE <<>>)
                   \o (IF asyncness_is_none(it) THEN <<MsgAsync>> ELSE <<>>)
                   \o (IF ~p_args.ok THEN <<MsgArgsParse>> ELSE <<>>)
                   \o (IF ~parsed.ok THEN <<parsed.err>> ELSE <<>>)
         IN IF ds # <<>> THEN [diags |-> ds, fns |-> <<>>]
            ELSE quote_tokio(Collect(p_args.metas), it.ident, it,
                             parsed.ids, parsed.tys, it.output)

\* pub fn tokio(args: TokenStream, item: TokenStream) -> TokenStream
tokio(a, it) ==
    IF ~ParseItemFn(it) THEN compile_error(MsgItemParse)
    ELSE IF HasTestAttr(it.attrs) THEN compile_error(MsgMultiple)
    ELSE IF asyncness_is_none(it) THEN compile_error(MsgAsync)
    ELSE LET p_args == ParseAttributeArgs(a) IN
         IF ~p_args.ok THEN compile_error(MsgArgsParse)
         ELSE LET attrib == Collect(p_args.metas)
                  call_by == it.ident
                  parsed == parse_args(it)
              IN IF ~parsed.ok THEN compile_error(parsed.err)
                 ELSE quote_tokio(attrib, call_by, it, parsed.ids, parsed.tys, it.output)

\* pub fn async_std(args: TokenStream, item: TokenStream) -> TokenStream
async_std(a, it) ==
    IF ~ParseItemFn(it) THEN compile_error(MsgItemParse)
    ELSE IF HasTestAttr(it.attrs) THEN compile_error(MsgMultiple)
    ELSE IF asyncness_is_none(it) THEN compile_error(MsgAsync)
    ELSE LET p_args == ParseAttributeArgs(a) IN
         IF ~p_args.ok THEN compile_error(MsgArgsParse)
         ELSE LET attrib == Collect(p_args.metas)
                  call_by == it.ident
                  parsed == parse_args(it)
              IN IF ~parsed.ok THEN compile_error(parsed.err)
                 ELSE quote_async_std(attrib, call_by, it, parsed.ids, parsed.tys, it.output)

\* ----------------------------------------------------------------- state
EngineIdle == [phase |-> "idle", tests |-> 0, shrinks |-> 0, inCall |-> "none"]

Init ==
    /\ item \in ItemFns \cup {NotFn}
    /\ args \in SeqUpTo(ArgTokens, MaxArgTokens)
    /\ expandedBy = "none"
    /\ result = NoOutput
    /\ testPc = "not_started"
    /\ worker = "none"
    /\ joinResult = "none"
    /\ engine = EngineIdle
    /\ sawFalse = FALSE

runtimeVars == <<testPc, worker, joinResult, engine, sawFalse>>

\* the compiler expands #[quickcheck_async::tokio(args)] item
Tokio ==
    /\ expandedBy = "none"
    /\ expandedBy' = "tokio"
    /\ result' = tokio(args, item)
    /\ UNCHANGED <<item, args>>
    /\ UNCHANGED runtimeVars

\* the compiler expands #[quickcheck_async::async_std(args)] item
AsyncStd ==
    /\ expandedBy = "none"
    /\ expandedBy' = "async_std"
    /\ result' = async_std(args, item)
    /\ UNCHANGED <<item, args>>
    /\ UNCHANGED runtimeVars

\* ------------------------------------------------- the emitted test at run time
Emitted == result.fns # <<>>

\* outcomes of one run of the nested async fn, by its return type; "hang" is a
\* future that never completes
Behaviours(ret) == IF ret = "bool" THEN {"true", "false", "hang"} ELSE {"unit", "hang"}

\* the harness starts the emitted test fn: it builds test_fn and either hands
\* quickcheck(test_fn) to spawn_blocking and awaits the JoinHandle, or calls
\* quickcheck(test_fn) inline
RunTest ==
    /\ Emitted
    /\ testPc = "not_started"
    /\ engine' = [EngineIdle EXCEPT !.phase = "testing"]
    /\ IF result.fns[1].run = "spawn_blocking"
       THEN testPc' = "awaiting" /\ worker' = "running"
       ELSE testPc' = "in_engine" /\ worker' = worker
    /\ UNCHANGED <<item, args, expandedBy, result, joinResult, sawFalse>>

\* quickcheck invokes test_fn: |#ids| block_on(#call_by(#ids))
BridgeCall ==
    /\ engine.phase \in {"testing", "shrinking"}
    /\ engine.inCall = "none"
    /\ engine.phase = "shrinking" => engine.shrinks < MaxShrink
    /\ \E b \in Behaviours(result.fns[1].bridge.ret) :
          engine' = [engine EXCEPT !.inCall = b]
    /\ UNCHANGED <<item, args, expandedBy, result, testPc, worker, joinResult, sawFalse>>

CanReturnTimeout(b) == TRUE

\* futures::executor::block_on returns when, and only when, the future completes
CanReturn(b) == b # "hang"

\* block_on returns the future's output to quickcheck
BridgeReturn ==
    /\ engine.inCall # "none"
    /\ CanReturn(engine.inCall)
    /\ IF engine.phase = "shrinking"
       THEN /\ engine' = [engine EXCEPT !.inCall = "none", !.shrinks = @ + 1]
            /\ sawFalse' = sawFalse
       ELSE IF engine.inCall = "false"
       THEN /\ engine' = [engine EXCEPT !.inCall = "none", !.phase = "shrinking"]
            /\ sawFalse' = TRUE
       ELSE /\ engine' = [engine EXCEPT !.inCall = "none", !.tests = @ + 1,
                                       !.phase = IF engine.tests + 1 = NumTests
                                                 THEN "passed" ELSE "testing"]
            /\ sawFalse' = sawFalse
    /\ UNCHANGED <<item, args, expandedBy, result, testPc, worker, joinResult>>

\* quickcheck stops shrinking and panics with the counter-example
EngineReport ==
    /\ engine.phase = "shrinking"
    /\ engine.inCall = "none"
    /\ engine' = [engine EXCEPT !.phase = "panicked"]
    /\ UNCHANGED <<item, args, expandedBy, result, testPc, worker, joinResult, sawFalse>>

\* the spawn_blocking closure ends: quickcheck returned or panicked
WorkerExit ==
    /\ worker = "running"
    /\ engine.phase \in {"passed", "panicked"}
    /\ worker' = IF engine.phase = "panicked" THEN "panicked" ELSE "finished"
    /\ UNCHANGED <<item, args, expandedBy, result, testPc, joinResult, engine, sawFalse>>

JoinReadyAlways(w) == TRUE

\* a JoinHandle resolves when its task has ended
JoinReady(w) == w \in {"finished", "panicked"}

\* .await on the JoinHandle: Err(JoinError) when the closure panicked
Await ==
    /\ testPc = "awaiting"
    /\ JoinReady(worker)
    /\ testPc' = "resumed"
    /\ joinResult' = IF worker = "panicked" THEN "Err" ELSE "Ok"
    /\ UNCHANGED <<item, args, expandedBy, result, worker, engine, sawFalse>>

UnwrapSwallow(jr) == "passed"

\* .unwrap() of the join result, the last expression of the test fn
Unwrap(jr) == IF jr = "Err" THEN "failed" ELSE "passed"

UnwrapStep ==
    /\ testPc = "resumed"
    /\ testPc' = Unwrap(joinResult)
    /\ UNCHANGED <<item, args, expandedBy, result, worker, joinResult, engine, sawFalse>>

\* ::quickcheck::quickcheck(test_fn); called inline returns or unwinds the test fn
InlineReturn ==
    /\ testPc = "in_engine"
    /\ engine.phase \in {"passed", "panicked"}
    /\ testPc' = IF engine.phase = "panicked" THEN "failed" ELSE "passed"
    /\ UNCHANGED <<item, args, expandedBy, result, worker, joinResult, engine, sawFalse>>

Next ==
    \/ Tokio
    \/ AsyncStd
    \/ RunTest
    \/ BridgeCall
    \/ BridgeReturn
    \/ EngineReport
    \/ WorkerExit
    \/ Await
    \/ UnwrapStep
    \/ InlineReturn

Spec == Init /\ [][Next]_vars

\* threads and the executors keep running whatever can run
FairSpec == Init /\ [][Next]_vars /\ WF_vars(Next)

\* ------------------------------------------------------------- properties
Expanded == expandedBy # "none"
IsFn == item.kind = "fn"
CarriesTest == \E i \in 1..Len(item.attrs) : item.attrs[i] = <<"test">>
TakesReceiver == \E i \in 1..Len(item.inputs) : item.inputs[i].kind = "Receiver"
FailsWith(msg) == result.diags = <<msg>> /\ result.fns = <<>>

\* the elements of a comma-separated token list, in order
Elements(ts) == SelectSeq(ts, LAMBDA t : t # Comma)

\* a comma-separated list of meta items, the last comma optional
WellFormedArgList(ts) ==
    \A i \in 1..Len(ts) : (i % 2 = 1) <=> (ts[i] # Comma)

\* C1: a function carrying an attribute whose path is the single identifier
\* `test` expands, under either entry point, to the one diagnostic "multiple
\* #[test] attributes were supplied" and to no wrapper, whatever else it is.
C1_TestMarkerRejected ==
    (Expanded /\ IsFn /\ CarriesTest) => FailsWith(MsgMultiple)

C1_Witness ==
    /\ expandedBy = "async_std"
    /\ IsFn /\ Len(item.attrs) = 2 /\ item.attrs[2] = <<"test">>
    /\ item.attrs[1] = <<"tokio", "test">>
    /\ ~item.asyncness /\ TakesReceiver /\ ~WellFormedArgList(args)
    /\ FailsWith(MsgMultiple)

\* C2 as stated: every function that is not async expands to the diagnostic
\* "test fn must be async" and to no wrapper.
C2_Original ==
    (Expanded /\ IsFn /\ ~item.asyncness) => FailsWith(MsgAsync)

\* C2 amended: every function that is not async and carries no `test`
\* attribute expands, under either entry point, to the diagnostic "test fn must
\* be async" and to no wrapper; every function that is not async expands to no
\* wrapper.
C2_NotAsyncRejected ==
    /\ (Expanded /\ IsFn /\ ~item.asyncness) => result.fns = <<>>
    /\ (Expanded /\ IsFn /\ ~item.asyncness /\ ~CarriesTest) => FailsWith(MsgAsync)

C2_Witness ==
    /\ expandedBy = "tokio"
    /\ IsFn /\ ~item.asyncness /\ ~CarriesTest /\ item.attrs # <<>>
    /\ TakesReceiver /\ ~WellFormedArgList(args)
    /\ FailsWith(MsgAsync)

\* C3 as stated: every function with a receiver parameter expands to the
\* diagnostic "test fn cannot take a receiver" and to no wrapper.
C3_Original ==
    (Expanded /\ IsFn /\ TakesReceiver) => FailsWith(MsgReceiver)

\* C3 amended: for every function with a receiver parameter at any position
\* the extractor returns the error and no partial sequence and no wrapper is
\* emitted; the diagnostic is "test fn cannot take a receiver" when the function
\* is async, carries no `test` attribute and the attribute argument list parses.
C3_ReceiverRejected ==
    /\ (Expanded /\ IsFn /\ TakesReceiver) =>
          /\ result.fns = <<>>
          /\ parse_args(item) = [ok |-> FALSE, ids |-> <<>>, tys |-> <<>>, err |-> MsgReceiver]
    /\ (Expanded /\ IsFn /\ TakesReceiver /\ item.asyncness /\ ~CarriesTest
          /\ WellFormedArgList(args)) => FailsWith(MsgReceiver)

C3_Witness ==
    /\ Expanded /\ IsFn /\ item.asyncness /\ ~CarriesTest
    /\ Len(item.inputs) = 2 /\ item.inputs[1].kind = "Typed" /\ item.inputs[2].kind = "Receiver"
    /\ Len(args) = 3 /\ WellFormedArgList(args)
    /\ FailsWith(MsgReceiver)

C5_ArgsPassThrough ==
    (Expanded /\ Emitted) =>
        /\ Elements(result.fns[1].marker.args) = Elements(args)
        /\ WellFormedArgList(result.fns[1].marker.args)
        /\ result.fns[1].marker.path = <<expandedBy, "test">>

C5_Witness ==
    /\ expandedBy = "tokio" /\ Emitted
    /\ args = <<"core_threads = 3", Comma, "core_threads = 3">>
    /\ result.fns[1].marker.args = args

\* C6: for a receiver-free parameter list of length n the extractor returns n
\* patterns and n types, the i-th being those of the i-th parameter; the bridge
\* is declared with these types and patterns in this order and passes the
\* patterns to the nested function in this order.
C6_ParametersInOrder ==
    /\ (Expanded /\ IsFn /\ ~TakesReceiver) =>
          LET a == parse_args(item) IN
          /\ a.ok
          /\ Len(a.ids) = Len(item.inputs) /\ Len(a.tys) = Len(item.inputs)
          /\ \A i \in 1..Len(item.inputs) :
                a.ids[i] = item.inputs[i].pat /\ a.tys[i] = item.inputs[i].ty
    /\ (Expanded /\ Emitted) =>
          LET b == result.fns[1].bridge
              n == Len(item.inputs)
          IN /\ Len(b.tys) = n /\ Len(b.ids) = n /\ Len(b.call_args) = n
             /\ \A i \in 1..n : /\ b.tys[i] = item.inputs[i].ty
                                /\ b.ids[i] = item.inputs[i].pat
                                /\ b.call_args[i] = item.inputs[i].pat

C6_Witness ==
    /\ Expanded /\ Emitted
    /\ Len(item.inputs) = 2 /\ item.inputs[1].pat = "b" /\ item.inputs[2].pat = "a"
    /\ result.fns[1].bridge.ids = <<"b", "a">>
    /\ result.fns[1].bridge.tys = <<"String", "u8">>

TestDone == testPc \in {"passed", "failed"}

\* C7: in both flavors a finished test has failed exactly when the bridge
\* returned false to the engine for some generated input, and passed exactly
\* when every return was a pass.
C7_OutcomeFollowsEngine ==
    TestDone => (testPc = "failed" <=> sawFalse)

C7_Witness ==
    /\ expandedBy = "tokio" /\ testPc = "failed" /\ sawFalse
    /\ worker = "panicked" /\ joinResult = "Err"

\* C8: an expansion yields exactly one output, a wrapper or a diagnostic,
\* never both; a wrapper is complete (marker, the nested original, the bridge);
\* a function that violates several checks gets one diagnostic.
C8_OneResult ==
    Expanded =>
        /\ Len(result.diags) + Len(result.fns) = 1
        /\ Emitted => /\ result.fns[1].nested = item
                      /\ result.fns[1].ident = item.ident
                      /\ result.fns[1].params = <<>>
                      /\ result.fns[1].bridge.ret = item.output

C8_Witness ==
    /\ expandedBy = "tokio"
    /\ IsFn /\ CarriesTest /\ ~item.asyncness /\ TakesReceiver /\ ~WellFormedArgList(args)
    /\ Len(result.diags) = 1 /\ result.fns = <<>>

TestResumed == testPc \in {"resumed", "passed", "failed"}

\* C9: in the tokio flavor the test function is past its await only when the
\* worker has ended: by then the engine has stopped and no bridge invocation is
\* running, and a worker that panicked makes the test fail.
C9_JoinBeforeResume ==
    (expandedBy = "tokio" /\ TestResumed) =>
        /\ worker \in {"finished", "panicked"}
        /\ engine.phase \in {"passed", "panicked"}
        /\ engine.inCall = "none"
        /\ (worker = "panicked") <=> (joinResult = "Err")
        /\ (TestDone /\ worker = "panicked") => testPc = "failed"

C9_Witness ==
    /\ expandedBy = "tokio" /\ testPc = "resumed"
    /\ worker = "panicked" /\ engine.shrinks = MaxShrink

Hung == engine.inCall = "hang"

\* C10: once the nested function never completes for some input the test never
\* completes; when no invocation hangs a started test eventually completes.
C10_NoTimeout ==
    /\ [](Hung => [](~TestDone /\ Hung))
    /\ (testPc \notin {"not_started"}) ~> (Hung \/ TestDone)

C10_Witness ==
    /\ expandedBy = "async_std" /\ Hung /\ testPc = "in_engine" /\ engine.tests = 1

====
